---- MODULE Spec2Model ----
(***************************************************************************)
(* Vindex interfaces and the vindex registry of                            *)
(* go/vt/vtgate/planbuilder/vindex.go.                                     *)
(*                                                                         *)
(*   Spec        Register / CreateVindex called one after the other        *)
(*   SpecConc    Register called from several goroutines, its map read    *)
(*               and its map write being separate steps                    *)
(*   SpecCap     IsUnique applied to a vindex value                        *)
(*   SpecLookup  a Lookup vindex backed by an in-memory store              *)
(***************************************************************************)
EXTENDS Integers, Sequences, FiniteSets, TLC

VARIABLES registry, lastCall, pc, raced, first, crashed, v, isUniqueRet,
          store, lastMut, lastVerify

vars == <<registry, lastCall, pc, raced, first, crashed, v, isUniqueRet,
          store, lastMut, lastVerify>>

regVars == <<registry, lastCall>>
concVars == <<pc, raced, first, crashed>>
capVars == <<v, isUniqueRet>>
lookupVars == <<store, lastMut, lastVerify>>

(***************************************************************************)
(* Bounds                                                                  *)
(***************************************************************************)
NumThreads == 2
MaxCost == 2
NumIds == 2

(***************************************************************************)
(* Inputs                                                                  *)
(***************************************************************************)
\* vindexType strings handed to Register and CreateVindex
TypeNames == {"", "stub_hash", "stub_lookup"}

\* name strings handed to CreateVindex
InstanceNames == {"idx1", "idx2"}

\* params maps: a map[string]interface{} is the set of its key/value pairs
Params == SUBSET {<<"table", "t">>, <<"unique", "true">>}

\* NewVindexFunc values: the nil func and two stub constructors
NilFunc == "nil"
Ctors == {NilFunc, "NewStubHash", "NewStubLookup"}

(***************************************************************************)
(* Interfaces as method sets; a method is <<name, signature>>              *)
(***************************************************************************)
Vindex ==
    { <<"String", "() string">>,
      <<"Cost", "() int">>,
      <<"Verify", "(VCursor, interface{}, []byte) (bool, error)">> }

Unique == { <<"Map", "(VCursor, []interface{}) ([][]byte, error)">> }

NonUnique == { <<"Map", "(VCursor, []interface{}) ([][][]byte, error)">> }

Reversible == { <<"ReverseMap", "(VCursor, []byte) (interface{}, error)">> }

FunctionalEmbedsNothing == {}

\* interface embedding: the method set of the embedded interface
Functional == Unique

Lookup ==
    { <<"Create", "(VCursor, interface{}, []byte) error">>,
      <<"Delete", "(VCursor, []interface{}, []byte) error">> }

\* the type assertion x.(I) succeeds iff x is non-nil and its dynamic type
\* has every method of I
Implements(x, I) == ~x.nil /\ I \subseteq x.methods

IsUniqueByMethodName(x) == ~x.nil /\ \E m \in x.methods : m[1] = "Map"

IsUnique(x) == Implements(x, Unique)

(***************************************************************************)
(* Values                                                                  *)
(***************************************************************************)
NilVindex == [nil |-> TRUE, name |-> "", cost |-> 0, methods |-> {}]

MkVindex(n, c, ms) == [nil |-> FALSE, name |-> n, cost |-> c, methods |-> Vindex \cup ms]

NilErr == [nil |-> TRUE, msg |-> <<>>]

\* fmt.Errorf / fmt.Sprintf: the message is the sequence of its pieces
Errorf(parts) == [nil |-> FALSE, msg |-> parts]

String(x) == x.name

Cost(x) == x.cost

\* what a call of the NewVindexFunc f returns when f is a function
CtorReturn(f, name, params) ==
    CASE f = "NewStubHash" ->
           <<MkVindex(name, 1, Unique \cup Reversible), NilErr>>
      [] f = "NewStubLookup" ->
           IF \E p \in params : p[1] = "table"
           THEN <<MkVindex(name, 2,
                    Lookup \cup (IF <<"unique", "true">> \in params
                                 THEN Unique ELSE NonUnique)), NilErr>>
           ELSE <<NilVindex, Errorf(<<"missing parameter ", "table">>)>>
      [] OTHER -> <<NilVindex, NilErr>>

NoCall ==
    [op |-> "none", vindexType |-> "", name |-> "", params |-> {},
     newVindexFunc |-> NilFunc, panicked |-> FALSE, panicMsg |-> <<>>,
     ret |-> <<NilVindex, NilErr>>, invoked |-> <<>>]

(***************************************************************************)
(* Registry, called from one goroutine                                     *)
(***************************************************************************)
InitRegistry ==
    /\ registry = [t \in {} |-> NilFunc]
    /\ lastCall = NoCall

IdleConc ==
    /\ pc = [th \in 1..NumThreads |-> [at |-> "idle", vindexType |-> "", newVindexFunc |-> NilFunc]]
    /\ raced = FALSE
    /\ first = [t \in {} |-> NilFunc]
    /\ crashed = FALSE

IdleCap ==
    /\ v = NilVindex
    /\ isUniqueRet = [called |-> FALSE, ok |-> FALSE]

NoMut == [op |-> "none", ids |-> {}, ks |-> "", had |-> {}]

NoVerify == [called |-> FALSE, id |-> 0, ks |-> "", ok |-> FALSE, err |-> NilErr]

IdleLookup ==
    /\ store = {}
    /\ lastMut = NoMut
    /\ lastVerify = NoVerify

Init == InitRegistry /\ IdleConc /\ IdleCap /\ IdleLookup

RegisterCall(vindexType, newVindexFunc) ==
    [NoCall EXCEPT !.op = "Register", !.vindexType = vindexType,
                   !.newVindexFunc = newVindexFunc]

RegisterIgnoresDuplicate(vindexType, newVindexFunc) ==
    /\ lastCall' = RegisterCall(vindexType, newVindexFunc)
    /\ registry' = IF vindexType \in DOMAIN registry
                   THEN registry
                   ELSE (vindexType :> newVindexFunc) @@ registry
    /\ UNCHANGED <<concVars, capVars, lookupVars>>

RegisterOverwrites(vindexType, newVindexFunc) ==
    /\ lastCall' = IF vindexType \in DOMAIN registry
                   THEN [RegisterCall(vindexType, newVindexFunc) EXCEPT
                           !.panicked = TRUE,
                           !.panicMsg = <<vindexType, " is already registered">>]
                   ELSE RegisterCall(vindexType, newVindexFunc)
    /\ registry' = (vindexType :> newVindexFunc) @@ registry
    /\ UNCHANGED <<concVars, capVars, lookupVars>>

Register(vindexType, newVindexFunc) ==
    /\ IF vindexType \in DOMAIN registry
       THEN /\ lastCall' = [RegisterCall(vindexType, newVindexFunc) EXCEPT
                              !.panicked = TRUE,
                              !.panicMsg = <<vindexType, " is already registered">>]
            /\ registry' = registry
       ELSE /\ lastCall' = RegisterCall(vindexType, newVindexFunc)
            /\ registry' = (vindexType :> newVindexFunc) @@ registry
    /\ UNCHANGED <<concVars, capVars, lookupVars>>

CreateCall(vindexType, name, params) ==
    [NoCall EXCEPT !.op = "CreateVindex", !.vindexType = vindexType,
                   !.name = name, !.params = params]

\* f(name, params): calling a nil func panics, a function returns its pair
CallFunc(call, f, name, params) ==
    IF f = NilFunc
    THEN [call EXCEPT !.invoked = Append(@, <<f, name, params>>),
                      !.panicked = TRUE,
                      !.panicMsg = <<"invalid memory address or nil pointer dereference">>]
    ELSE [call EXCEPT !.invoked = Append(@, <<f, name, params>>),
                      !.ret = CtorReturn(f, name, params)]

CreateVindexAnonymousError(vindexType, name, params) ==
    /\ lastCall' =
         IF vindexType \notin DOMAIN registry
         THEN [CreateCall(vindexType, name, params) EXCEPT
                 !.ret = <<NilVindex, Errorf(<<"vindexType not found">>)>>]
         ELSE CallFunc(CreateCall(vindexType, name, params),
                       registry[vindexType], name, params)
    /\ registry' = registry
    /\ UNCHANGED <<concVars, capVars, lookupVars>>

CreateVindexDropsParams(vindexType, name, params) ==
    /\ lastCall' =
         IF vindexType \notin DOMAIN registry
         THEN [CreateCall(vindexType, name, params) EXCEPT
                 !.ret = <<NilVindex, Errorf(<<"vindexType ", vindexType, " not found">>)>>]
         ELSE CallFunc(CreateCall(vindexType, name, params),
                       registry[vindexType], name, {})
    /\ registry' = registry
    /\ UNCHANGED <<concVars, capVars, lookupVars>>

CreateVindexForgetsFailed(vindexType, name, params) ==
    LET call == IF vindexType \notin DOMAIN registry
                THEN [CreateCall(vindexType, name, params) EXCEPT
                        !.ret = <<NilVindex, Errorf(<<"vindexType ", vindexType, " not found">>)>>]
                ELSE CallFunc(CreateCall(vindexType, name, params),
                              registry[vindexType], name, params)
    IN /\ lastCall' = call
       /\ registry' = IF vindexType \in DOMAIN registry /\ ~call.ret[2].nil
                      THEN [t \in DOMAIN registry \ {vindexType} |-> registry[t]]
                      ELSE registry
       /\ UNCHANGED <<concVars, capVars, lookupVars>>

CreateVindex(vindexType, name, params) ==
    /\ lastCall' =
         IF vindexType \notin DOMAIN registry
         THEN [CreateCall(vindexType, name, params) EXCEPT
                 !.ret = <<NilVindex, Errorf(<<"vindexType ", vindexType, " not found">>)>>]
         ELSE CallFunc(CreateCall(vindexType, name, params),
                       registry[vindexType], name, params)
    /\ registry' = registry
    /\ UNCHANGED <<concVars, capVars, lookupVars>>

DoRegister == \E t \in TypeNames, f \in Ctors : Register(t, f)

DoCreateVindex == \E t \in TypeNames, n \in InstanceNames, p \in Params : CreateVindex(t, n, p)

Next == DoRegister \/ DoCreateVindex

Spec == Init /\ [][Next]_vars

(***************************************************************************)
(* Register called from several goroutines.  The function takes no lock:  *)
(* the read of the map and the write to it are separate steps.            *)
(***************************************************************************)
Threads == 1..NumThreads

InFlight(th) == \E o \in Threads \ {th} : pc[o].at = "checked"

RegLookupSkipsCheck(th, vindexType, newVindexFunc) ==
    /\ ~crashed
    /\ pc[th].at = "idle"
    /\ pc' = [pc EXCEPT ![th] = [at |-> "checked", vindexType |-> vindexType,
                                 newVindexFunc |-> newVindexFunc]]
    /\ raced' = (raced \/ InFlight(th))
    /\ UNCHANGED <<registry, first, crashed, lastCall, capVars, lookupVars>>

\* if _, ok := registry[vindexType]; ok { panic(...) }
RegLookup(th, vindexType, newVindexFunc) ==
    /\ ~crashed
    /\ pc[th].at = "idle"
    /\ pc' = [pc EXCEPT ![th] =
                [at |-> IF vindexType \in DOMAIN registry THEN "panicked" ELSE "checked",
                 vindexType |-> vindexType, newVindexFunc |-> newVindexFunc]]
    /\ raced' = (raced \/ InFlight(th))
    /\ UNCHANGED <<registry, first, crashed, lastCall, capVars, lookupVars>>

\* registry[vindexType] = newVindexFunc
RegStore(th) ==
    /\ ~crashed
    /\ pc[th].at = "checked"
    /\ registry' = (pc[th].vindexType :> pc[th].newVindexFunc) @@ registry
    /\ first' = first @@ (pc[th].vindexType :> pc[th].newVindexFunc)
    /\ pc' = [pc EXCEPT ![th].at = "done"]
    /\ UNCHANGED <<raced, crashed, lastCall, capVars, lookupVars>>

\* an unsynchronised map write while another goroutine is inside Register is a
\* data race; the runtime may detect it and throw "concurrent map writes"
RegThrow(th) ==
    /\ ~crashed
    /\ pc[th].at = "checked"
    /\ InFlight(th)
    /\ crashed' = TRUE
    /\ pc' = [pc EXCEPT ![th].at = "fatal"]
    /\ UNCHANGED <<registry, first, raced, lastCall, capVars, lookupVars>>

NextConc ==
    \/ \E th \in Threads, t \in TypeNames, f \in Ctors : RegLookup(th, t, f)
    \/ \E th \in Threads : RegStore(th)
    \/ \E th \in Threads : RegThrow(th)

SpecConc == Init /\ [][NextConc]_vars

(***************************************************************************)
(* IsUnique applied to a vindex value                                      *)
(***************************************************************************)
\* the vindex values: every type that has the Vindex methods, at most one Map
\* method, and any of the optional ReverseMap and Create/Delete methods
Stubs ==
    {NilVindex} \cup
    { MkVindex(n, c, m \cup r \cup l) :
        n \in InstanceNames, c \in 0..MaxCost,
        m \in {{}, Unique, NonUnique}, r \in {{}, Reversible}, l \in {{}, Lookup} }

InitCap ==
    /\ InitRegistry /\ IdleConc /\ IdleLookup
    /\ v \in Stubs
    /\ isUniqueRet = [called |-> FALSE, ok |-> FALSE]

CallIsUnique ==
    /\ ~isUniqueRet.called
    /\ isUniqueRet' = [called |-> TRUE, ok |-> IsUnique(v)]
    /\ UNCHANGED <<v, regVars, concVars, lookupVars>>

NextCap == CallIsUnique

SpecCap == InitCap /\ [][NextCap]_vars

(***************************************************************************)
(* A Lookup vindex whose associations are kept in an in-memory store       *)
(***************************************************************************)
Ids == 1..NumIds

KeyspaceIds == {"ks1", "ks2"}

LookupCreate(id, ks, cursorOk) ==
    /\ IF cursorOk
       THEN /\ store' = store \cup {<<id, ks>>}
            /\ lastMut' = [op |-> "Create", ids |-> {id}, ks |-> ks,
                            had |-> {i \in {id} : <<i, ks>> \in store}]
            /\ lastVerify' = NoVerify
       ELSE UNCHANGED lookupVars
    /\ UNCHANGED <<regVars, concVars, capVars>>

LookupDeleteOnlyFirst(ids, ks, cursorOk) ==
    /\ IF cursorOk
       THEN /\ store' = store \ {<<CHOOSE i \in ids : \A j \in ids : i <= j, ks>>}
            /\ lastMut' = [op |-> "Delete", ids |-> ids, ks |-> ks,
                            had |-> {i \in ids : <<i, ks>> \in store}]
            /\ lastVerify' = NoVerify
       ELSE UNCHANGED lookupVars
    /\ UNCHANGED <<regVars, concVars, capVars>>

LookupDelete(ids, ks, cursorOk) ==
    /\ IF cursorOk
       THEN /\ store' = store \ {<<i, ks>> : i \in ids}
            /\ lastMut' = [op |-> "Delete", ids |-> ids, ks |-> ks,
                            had |-> {i \in ids : <<i, ks>> \in store}]
            /\ lastVerify' = NoVerify
       ELSE UNCHANGED lookupVars
    /\ UNCHANGED <<regVars, concVars, capVars>>

\* the stored associations changed by something other than this vindex
ExternalMutation(id, ks) ==
    /\ store' = IF <<id, ks>> \in store THEN store \ {<<id, ks>>} ELSE store \cup {<<id, ks>>}
    /\ lastMut' = [op |-> "External", ids |-> {id}, ks |-> ks,
                       had |-> {i \in {id} : <<i, ks>> \in store}]
    /\ lastVerify' = NoVerify
    /\ UNCHANGED <<regVars, concVars, capVars>>

LookupVerify(id, ks) ==
    /\ lastVerify' = [called |-> TRUE, id |-> id, ks |-> ks,
                      ok |-> <<id, ks>> \in store, err |-> NilErr]
    /\ UNCHANGED <<store, lastMut, regVars, concVars, capVars>>

NextLookup ==
    \/ \E id \in Ids, ks \in KeyspaceIds, c \in BOOLEAN : LookupCreate(id, ks, c)
    \/ \E ids \in SUBSET Ids \ {{}}, ks \in KeyspaceIds, c \in BOOLEAN : LookupDelete(ids, ks, c)
    \/ \E id \in Ids, ks \in KeyspaceIds : ExternalMutation(id, ks)
    \/ \E id \in Ids, ks \in KeyspaceIds : LookupVerify(id, ks)

SpecLookup == Init /\ [][NextLookup]_vars

(***************************************************************************)
(* Properties                                                              *)
(***************************************************************************)

\* C1: a Register for a vindexType that is already registered panics instead
\* of completing normally, whatever constructor it is given.
C1_DuplicateRegisterPanics ==
    [][\A t \in TypeNames :
         (lastCall'.op = "Register" /\ lastCall'.vindexType = t /\ t \in DOMAIN registry)
           => /\ lastCall'.panicked
              /\ lastCall'.panicMsg = <<t, " is already registered">>]_vars

C1_Witness ==
    /\ lastCall.op = "Register"
    /\ lastCall.panicked
    /\ lastCall.vindexType \in DOMAIN registry
    /\ registry[lastCall.vindexType] = lastCall.newVindexFunc

\* C2: CreateVindex with a vindexType that is not registered returns a nil
\* vindex and a "not found" error naming the vindexType, and calls no
\* constructor.
C2_UnknownTypeNotFound ==
    (lastCall.op = "CreateVindex" /\ lastCall.vindexType \notin DOMAIN registry)
      => /\ ~lastCall.panicked
         /\ lastCall.ret[1].nil
         /\ ~lastCall.ret[2].nil
         /\ lastCall.ret[2].msg = <<"vindexType ", lastCall.vindexType, " not found">>
         /\ lastCall.invoked = <<>>

C2_Witness ==
    /\ lastCall.op = "CreateVindex"
    /\ lastCall.vindexType \notin DOMAIN registry
    /\ registry # <<>>
    /\ ~lastCall.ret[2].nil

\* C3: CreateVindex with a registered vindexType calls the registered
\* constructor exactly once with exactly (name, params), and whatever pair the
\* constructor returns is what CreateVindex returns: a constructor error is
\* that error, a constructed vindex is that vindex (its String() the name it
\* was given, its Cost() the constructor's, 1 for the hash stub).
C3_DelegatesToConstructor ==
    (lastCall.op = "CreateVindex" /\ lastCall.vindexType \in DOMAIN registry)
      => LET f == registry[lastCall.vindexType] IN
         /\ lastCall.invoked = << <<f, lastCall.name, lastCall.params>> >>
         /\ f # NilFunc =>
              /\ ~lastCall.panicked
              /\ lastCall.ret = CtorReturn(f, lastCall.name, lastCall.params)
              /\ ~lastCall.ret[1].nil => String(lastCall.ret[1]) = lastCall.name
              /\ f = "NewStubHash" => /\ Cost(lastCall.ret[1]) = 1
                                      /\ lastCall.ret[2].nil
              /\ (f = "NewStubLookup" /\ \A p \in lastCall.params : p[1] # "table")
                   => /\ lastCall.ret[1].nil
                      /\ lastCall.ret[2] = Errorf(<<"missing parameter ", "table">>)

C3_Witness ==
    /\ lastCall.op = "CreateVindex"
    /\ lastCall.vindexType \in DOMAIN registry
    /\ registry[lastCall.vindexType] = "NewStubLookup"
    /\ lastCall.params = {<<"table", "t">>, <<"unique", "true">>}
    /\ ~lastCall.ret[1].nil
    /\ IsUnique(lastCall.ret[1])

\* C4: a CreateVindex call leaves the registry as it was, whether the type is
\* unknown, the constructor rejects the params, or the call succeeds.
C4_CreateVindexKeepsRegistry ==
    [][lastCall'.op = "CreateVindex" => registry' = registry]_vars

C4_Witness ==
    /\ lastCall.op = "CreateVindex"
    /\ lastCall.vindexType \in DOMAIN registry
    /\ registry[lastCall.vindexType] = "NewStubLookup"
    /\ lastCall.ret[1].nil
    /\ ~lastCall.ret[2].nil

\* C5: a registered vindexType stays registered and bound to the constructor
\* of its first Register, over every Register (duplicates included) and
\* CreateVindex call; a populated registry never becomes empty.
C5_RegistryOnlyGrows ==
    [][/\ \A t \in DOMAIN registry :
            t \in DOMAIN registry' /\ registry'[t] = registry[t]
       /\ DOMAIN registry # {} => DOMAIN registry' # {}]_vars

C5_Witness ==
    /\ lastCall.op = "Register"
    /\ lastCall.panicked
    /\ registry[lastCall.vindexType] # lastCall.newVindexFunc
    /\ Cardinality(DOMAIN registry) >= 2

\* C10: a CreateVindex call always returns a pair to its caller: it never
\* panics, whatever Register calls came before (a nil constructor included).
C10_CreateVindexNeverPanics ==
    lastCall.op = "CreateVindex" => ~lastCall.panicked

\* C7 as claimed: under any interleaving of Register calls from several
\* goroutines, no two calls for the same vindexType both complete normally
\* and a stored constructor is never overwritten.
C7_AnyInterleaving ==
    /\ \A a, b \in Threads :
         (a # b /\ pc[a].at = "done" /\ pc[b].at = "done")
           => pc[a].vindexType # pc[b].vindexType
    /\ \A t \in DOMAIN registry : registry[t] = first[t]

\* C7 as amended: when no Register call starts while another is between its
\* map read and its map write, no two calls for the same vindexType both
\* complete normally, the later one panics, and a stored constructor is never
\* overwritten.
C7_SerialisedRegister ==
    ~raced =>
      /\ \A a, b \in Threads :
           (a # b /\ pc[a].at = "done" /\ pc[b].at = "done")
             => pc[a].vindexType # pc[b].vindexType
      /\ \A t \in DOMAIN registry : registry[t] = first[t]
      /\ \A a \in Threads :
           pc[a].at \in {"checked", "done"} =>
             \A b \in Threads \ {a} :
               pc[b].at = "done" => pc[b].vindexType # pc[a].vindexType
      /\ ~crashed

C7_Witness ==
    /\ ~raced
    /\ \E a, b \in Threads :
         /\ pc[a].at = "done"
         /\ pc[b].at = "panicked"
         /\ pc[a].vindexType = pc[b].vindexType
         /\ pc[a].newVindexFunc # pc[b].newVindexFunc

\* C6: IsUnique(v) is true exactly when v has the Map method of Unique (one
\* keyspace id per id), whatever its other methods, its name and its cost.
C6_IsUniqueIffUnique ==
    isUniqueRet.called =>
      (isUniqueRet.ok <=>
         <<"Map", "(VCursor, []interface{}) ([][]byte, error)">> \in v.methods)

C6_Witness ==
    /\ isUniqueRet.called
    /\ ~isUniqueRet.ok
    /\ Implements(v, NonUnique)
    /\ Implements(v, Reversible)

\* C8: a vindex that satisfies Functional satisfies Unique, so IsUnique is
\* true of it; a vindex that satisfies Lookup can be Unique or NonUnique.
C8_FunctionalIsUnique ==
    /\ Implements(v, Functional) =>
         /\ Implements(v, Unique)
         /\ isUniqueRet.called => isUniqueRet.ok
    /\ \E x \in Stubs : Implements(x, Lookup) /\ Implements(x, Unique)
    /\ \E x \in Stubs : Implements(x, Lookup) /\ Implements(x, NonUnique)

C8_Witness ==
    /\ Implements(v, Functional)
    /\ Implements(v, Lookup)
    /\ isUniqueRet.called
    /\ isUniqueRet.ok

\* C9: with no other mutation in between, the Verify that follows a
\* successful Create of (id, ks) returns (true, nil) and the Verify that
\* follows a successful Delete of ([id], ks) returns (false, nil).
C9_VerifyFollowsCreateDelete ==
    (lastVerify.called /\ lastVerify.id \in lastMut.ids /\ lastVerify.ks = lastMut.ks)
      => /\ lastMut.op = "Create" => (lastVerify.ok /\ lastVerify.err.nil)
         /\ lastMut.op = "Delete" => (~lastVerify.ok /\ lastVerify.err.nil)

C9_Witness ==
    /\ lastVerify.called
    /\ lastMut.op = "Delete"
    /\ Cardinality(lastMut.ids) = 2
    /\ lastVerify.id \in lastMut.had
    /\ lastVerify.id = 2
    /\ lastVerify.ks = lastMut.ks
    /\ ~lastVerify.ok

====
